---- MODULE Spec2Model ----
(***************************************************************************)
(* Quota enforcement of can-render-studio: the rate-limit edge function    *)
(* (check / record) over the user_usage, anonymous_usage and               *)
(* generation_logs tables.  Each request is handled by its own invocation  *)
(* of the handler; invocations share nothing but the tables, and every     *)
(* awaited call is one atomic step.  The browser's SecureUsageService, with *)
(* its localStorage fallback counter, is the client part.                  *)
(***************************************************************************)
EXTENDS Integers, Sequences, FiniteSets, Bags, TLC

\* ---------------------------------------------------------------- bounds
\* Requests started in one behaviour: handled one at a time, and handled
\* concurrently.
MaxRequests == 3
MaxConcurrentRequests == 2

\* ------------------------------------------------------ program constants
ANONYMOUS_DAILY_LIMIT == 5
AUTHENTICATED_DAILY_LIMIT == 10
MAX_FINGERPRINT_LENGTH == 500

\* ------------------------------------------------------------- universes
\* Handler invocations that may be in flight at once.
Procs == {"p1", "p2"}
\* The single invocation of the one-request-at-a-time specification.
SeqProcs == {"p1"}

NoHeader == ""
NoUser == "null"
\* x-forwarded-for as its comma-separated entries, <<>> when absent or empty.
XForwardedFor == {<<>>, <<"ip1", "ip2">>}
XRealIp == {NoHeader, "ip2"}
\* The same, when every caller sits behind the one forwarding proxy.
XRealIpOneProxy == {NoHeader}
CfConnectingIp == {NoHeader, "ip1"}
\* Authorization header: scheme and token.
AuthHeaders ==
    { [scheme |-> NoHeader, token |-> NoHeader],
      [scheme |-> "Bearer", token |-> "tok_u1"],
      [scheme |-> "Bearer", token |-> "bad"],
      [scheme |-> "Basic", token |-> "tok_u1"] }
\* The same, with the token of a second user.
AuthHeadersTwoUsers == AuthHeaders \cup {[scheme |-> "Bearer", token |-> "tok_u2"]}
\* Characters matched by [a-zA-Z0-9] among those the fingerprints use.
Alnum == {"a", "b"}
Oversized == [i \in 1..(MAX_FINGERPRINT_LENGTH + 1) |-> "a"]
Fingerprints == {<<>>, <<"a">>, <<"b">>, Oversized}
\* The same, with one that differs from <<"a">> in a stripped character only.
FingerprintsPunctuated == Fingerprints \cup {<<"a", "-">>}
Actions == {"check", "record"}

Max(a, b) == IF a >= b THEN a ELSE b
Min(a, b) == IF a <= b THEN a ELSE b

\* ------------------------------------------------------ identity resolver
IsAlnum(c) == c \in Alnum

sanitizeFingerprint(fingerprint) ==
    LET stripped == SelectSeq(fingerprint, IsAlnum)
    IN  SubSeq(stripped, 1, Min(Len(stripped), MAX_FINGERPRINT_LENGTH))

\* sanitizeFingerprint throws on these.
InvalidFingerprint(fingerprint) ==
    fingerprint = <<>> \/ Len(fingerprint) > MAX_FINGERPRINT_LENGTH

\* Variant: the hashed string leaves the address out.
createSecureAnonymousIdNoIp(ip, fingerprint) ==
    <<"", sanitizeFingerprint(fingerprint)>>

\* SHA-256 of "ip:sanitized", taken as injective: the hashed string itself.
createSecureAnonymousId(ip, fingerprint) ==
    <<ip, sanitizeFingerprint(fingerprint)>>

NoAnonId == <<"", <<>>>>

\* Variant: the address 'unknown' passes as valid.
validateRequestUnknownValid(xff, xri, cf) ==
    LET clientIP == IF xff # <<>> /\ Head(xff) # "" THEN Head(xff)
                    ELSE IF xri # NoHeader THEN xri
                    ELSE IF cf # NoHeader THEN cf
                    ELSE "unknown"
    IN  [ip |-> clientIP, isValid |-> clientIP # ""]

validateRequest(xff, xri, cf) ==
    LET clientIP == IF xff # <<>> /\ Head(xff) # "" THEN Head(xff)
                    ELSE IF xri # NoHeader THEN xri
                    ELSE IF cf # NoHeader THEN cf
                    ELSE "unknown"
    IN  [ip |-> clientIP, isValid |-> clientIP # "unknown" /\ clientIP # ""]

\* Variant: every token presented is taken for the user's.
getUserAnyToken(token) == IF token # NoHeader THEN "u1" ELSE NoUser

\* auth.getUser: the user the token belongs to, or none.
getUser(token) ==
    IF token = "tok_u1" THEN "u1"
    ELSE IF token = "tok_u2" THEN "u2"
    ELSE NoUser

Authenticate(auth) ==
    IF auth.scheme = "Bearer" THEN getUser(auth.token) ELSE NoUser

maxGenerations(isAuthenticated) ==
    IF isAuthenticated THEN AUTHENTICATED_DAILY_LIMIT ELSE ANONYMOUS_DAILY_LIMIT

\* ----------------------------------------------------------------- state
VARIABLES
    clock,            \* the server's calendar day (new Date()); no midnight
                      \* passes within a behaviour
    user_usage,       \* rows of table user_usage
    anonymous_usage,  \* rows of table anonymous_usage
    generation_logs,  \* rows of table generation_logs (a bag: rows carry a fresh id)
    pc,               \* per invocation: where the handler is
    loc,              \* per invocation: the handler's locals
    resp,             \* per invocation: the response it returned
    responses,        \* answers given to record requests that reached the final check
    nreq,             \* requests started so far
    req,              \* the request on the wire, where one request is followed
    localStorage,     \* browser: the fallback usage items, by storage key
    session,          \* browser: whether supabase.auth.getSession() has a user
    clientDate,       \* browser: the local calendar day
    call,             \* browser: the SecureUsageService call in progress
    device,           \* browser: the device id, stored and held by the service
    flow              \* browser: the generation the page is carrying out

clientVars == <<localStorage, session, clientDate, call, device, flow>>

vars == <<clock, user_usage, anonymous_usage, generation_logs,
          pc, loc, resp, responses, nreq, req, clientVars>>

\* Headers and JSON body of a request.
Request(xff, xri, cf, auth, action, fingerprint, success) ==
    [xff |-> xff, xri |-> xri, cf |-> cf, auth |-> auth, action |-> action,
     fingerprint |-> fingerprint, success |-> success]

NoReq == Request(<<>>, NoHeader, NoHeader, [scheme |-> NoHeader, token |-> NoHeader],
                 "", <<>>, FALSE)

Requests ==
    {Request(xff, xri, cf, auth, action, fingerprint, success) :
        xff \in XForwardedFor, xri \in XRealIp, cf \in CfConnectingIp,
        auth \in AuthHeadersTwoUsers, action \in Actions,
        fingerprint \in FingerprintsPunctuated, success \in BOOLEAN}

NoLoc ==
    [clientIP |-> "", isAuthenticated |-> FALSE, user |-> NoUser,
     fingerprint |-> <<>>, anonymousId |-> NoAnonId, maxGenerations |-> 0,
     today |-> 0, action |-> "", generationsUsed |-> 0, currentUsage |-> 0]

NoResp ==
    [status |-> 0, error |-> "", success |-> FALSE, canGenerate |-> FALSE,
     generationsUsed |-> 0, generationsRemaining |-> 0,
     isAuthenticated |-> FALSE, limitType |-> ""]

ErrorResp(status, error) ==
    [NoResp EXCEPT !.status = status, !.error = error]

\* ---------------------------------------------------------------- queries
SumGenerations(rows) ==
    LET RECURSIVE Sum(_)
        Sum(S) == IF S = {} THEN 0
                  ELSE LET r == CHOOSE x \in S : TRUE
                       IN  r.generations_used + Sum(S \ {r})
    IN  Sum(rows)

\* from('user_usage').eq('user_id').eq('date').single(): generations_used || 0
SelectUserUsage(table, user, today) ==
    SumGenerations({r \in table : r.user_id = user /\ r.date = today})

\* from('anonymous_usage').eq('anonymous_id').eq('date').single()
SelectAnonymousData(table, anonymousId, today) ==
    SumGenerations({r \in table : r.anonymous_id = anonymousId /\ r.date = today})

\* Variant: the query without .neq('anonymous_id', ...).
SelectIpUsageCheckAll(table, clientIP, today, anonymousId) ==
    {r \in table : r.ip_address = clientIP /\ r.date = today}

\* check: .eq('ip_address').eq('date').neq('anonymous_id')
SelectIpUsageCheck(table, clientIP, today, anonymousId) ==
    {r \in table : r.ip_address = clientIP /\ r.date = today
                   /\ r.anonymous_id # anonymousId}

\* record: .eq('ip_address').eq('date')
SelectIpUsageRecord(table, clientIP, today) ==
    {r \in table : r.ip_address = clientIP /\ r.date = today}

\* Variant: the other fingerprints of the IP are not counted.
CheckGenerationsUsedOwn(generationsUsed, ipUsage) == generationsUsed

\* Variant: the own row and the other rows are added up.
CheckGenerationsUsedSum(generationsUsed, ipUsage) ==
    generationsUsed + SumGenerations(ipUsage)

\* check: Math.max(generationsUsed, additionalAnonymousUsage)
CheckGenerationsUsed(generationsUsed, ipUsage) ==
    Max(generationsUsed, SumGenerations(ipUsage))

\* record: Math.max(anonymousUsage, totalIpUsage)
RecordCurrentUsage(anonymousUsage, ipUsage) ==
    Max(anonymousUsage, SumGenerations(ipUsage))

\* Variant: the final check lets a caller at the cap through.
LimitExceededStrict(currentUsage, maxGen) == currentUsage > maxGen

\* check, anonymous: generationsUsed as one read of the store gives it.
CheckUsage(table, anonymousId, clientIP, today) ==
    CheckGenerationsUsed(SelectAnonymousData(table, anonymousId, today),
                         SelectIpUsageCheck(table, clientIP, today, anonymousId))

\* record, anonymous: currentUsage as one read of the store gives it.
RecordUsage(table, anonymousId, clientIP, today) ==
    RecordCurrentUsage(SelectAnonymousData(table, anonymousId, today),
                       SelectIpUsageRecord(table, clientIP, today))

\* record: the final check
LimitExceeded(currentUsage, maxGen) == currentUsage >= maxGen

\* Variant: the upsert counts the generation twice.
UpsertValueTwice(currentUsage) == currentUsage + 2

\* record: the value the upsert stores
UpsertValue(currentUsage) == currentUsage + 1

CheckResponse(generationsUsed, maxGen, isAuthenticated) ==
    [NoResp EXCEPT
        !.status = 200,
        !.canGenerate = generationsUsed < maxGen,
        !.generationsUsed = generationsUsed,
        !.generationsRemaining = Max(0, maxGen - generationsUsed),
        !.isAuthenticated = isAuthenticated,
        !.limitType = IF isAuthenticated THEN "authenticated" ELSE "anonymous"]

ExceededResponse(currentUsage) ==
    [NoResp EXCEPT
        !.status = 429,
        !.error = "Generation limit exceeded",
        !.canGenerate = FALSE,
        !.generationsUsed = currentUsage,
        !.generationsRemaining = 0]

\* Variant: the answer carries the counts read before the upsert.
RecordedResponseStale(currentUsage, maxGen) ==
    [NoResp EXCEPT
        !.status = 200,
        !.success = TRUE,
        !.generationsUsed = currentUsage,
        !.generationsRemaining = maxGen - currentUsage]

RecordedResponse(currentUsage, maxGen) ==
    [NoResp EXCEPT
        !.status = 200,
        !.success = TRUE,
        !.generationsUsed = currentUsage + 1,
        !.generationsRemaining = maxGen - (currentUsage + 1)]

\* Variant: the upsert replaces the day's rows of every user.
UpsertUserUsageAnyUser(table, user, today, value) ==
    {r \in table : r.date # today}
        \cup {[user_id |-> user, date |-> today, generations_used |-> value]}

\* upsert(..., onConflict: 'user_id,date')
UpsertUserUsage(table, user, today, value) ==
    {r \in table : ~(r.user_id = user /\ r.date = today)}
        \cup {[user_id |-> user, date |-> today, generations_used |-> value]}

\* upsert(..., onConflict: 'anonymous_id,date')
UpsertAnonymousUsage(table, anonymousId, clientIP, fingerprint, today, value) ==
    {r \in table : ~(r.anonymous_id = anonymousId /\ r.date = today)}
        \cup {[anonymous_id |-> anonymousId, ip_address |-> clientIP,
               fingerprint |-> sanitizeFingerprint(fingerprint),
               date |-> today, generations_used |-> value]}

LogEntry(l, createdAt) ==
    [user_id |-> l.user,
     anonymous_id |-> IF l.isAuthenticated THEN NoAnonId ELSE l.anonymousId,
     ip_address |-> l.clientIP,
     fingerprint |-> sanitizeFingerprint(l.fingerprint),
     created_at |-> createdAt,
     success |-> TRUE,
     limit_type |-> IF l.isAuthenticated THEN "authenticated" ELSE "anonymous",
     generations_before |-> l.currentUsage,
     generations_after |-> l.currentUsage + 1]

\* The identity a record answer belongs to, with the day it was counted on.
Answer(l, status) ==
    [user_id |-> l.user,
     anonymous_id |-> IF l.isAuthenticated THEN NoAnonId ELSE l.anonymousId,
     date |-> l.today, status |-> status]

\* --------------------------------------------------------- browser state
\* localStorage keys of the fallback counter, for the one device id:
\* auth_usage_<deviceId> and anon_usage_<deviceId>.
StorageKeys == {"auth_usage", "anon_usage"}
storageKey(isAuthenticated) == IF isAuthenticated THEN "auth_usage" ELSE "anon_usage"

\* getItem returned null: no item under the key.
NoItem == [date |-> 0, count |-> 0]

\* What a call returned: SecureUsageStats for checkUsageLimit, the record
\* answer for recordGeneration (fields a call does not set stay as here).
NoResult ==
    [success |-> FALSE, generationsUsed |-> 0, generationsRemaining |-> 0,
     canGenerate |-> FALSE, isAuthenticated |-> FALSE, maxGenerations |-> 0,
     limitType |-> ""]

\* functions.invoke got no answer from the rate-limit function.
NoReply == [reachable |-> FALSE, status |-> 0, data |-> NoResp]

\* op: the method called; success: recordGeneration's argument;
\* isAuthenticated: !!session?.user read on entry; reply: what
\* functions.invoke got; console: the last console.error line; result: what
\* the call returned.
NoCall ==
    [op |-> "", pc |-> "idle", success |-> FALSE, isAuthenticated |-> FALSE,
     reply |-> NoReply, console |-> "", result |-> NoResult, rejected |-> FALSE]

\* stored: the item device_id_v2 (0: none); deviceId: this.deviceId of the
\* service; minted: the ids generated so far, each new one differing from
\* all before by its timestamp and random part; writable: whether
\* localStorage.setItem succeeds.
NoDevice == [stored |-> 0, deviceId |-> 0, minted |-> 0, writable |-> TRUE]

\* Variant: a new id is generated on every call.
getDeviceIdAlwaysNew(d) ==
    LET id == d.minted + 1
    IN  [d EXCEPT !.minted = id,
                  !.stored = IF d.writable THEN id ELSE d.stored,
                  !.deviceId = id]

\* The device after this.deviceId = getDeviceId().
getDeviceId(d) ==
    IF d.stored # 0
      THEN [d EXCEPT !.deviceId = d.stored]
      ELSE LET id == d.minted + 1
           IN  [d EXCEPT !.minted = id,
                         !.stored = IF d.writable THEN id ELSE 0,
                         !.deviceId = id]

\* The page with no generation in progress.  pc: where handleGenerate and
\* generateCanRender stand; canGenerate: usageStats?.canGenerate of the
\* component; isGenerating: the component's flag; success: handleGenerate's
\* local; settled: the promise generateCanRender returned; response: whether
\* the model's answer has an image part; gate: what generateCanRender's own
\* checkUsageLimit said; modelCalls, recordRequests: generateContent calls
\* and record(success=true) requests of the current generation; recordStatus:
\* the status answered to generateCanRender's first record (0: no answer);
\* accepted: the function accepted a record of the current generation;
\* generations: the clicks that started a generation; unrecorded: the images
\* delivered of which the function accepted no record.
NoFlow ==
    [pc |-> "idle", canGenerate |-> FALSE, isGenerating |-> FALSE,
     success |-> FALSE, settled |-> "none", response |-> "none",
     gate |-> "none", modelCalls |-> 0, recordRequests |-> 0,
     recordStatus |-> 0, accepted |-> FALSE, generations |-> 0,
     unrecorded |-> 0]

\* ------------------------------------------------------------------ Init
\* The store some way into a day.  Yesterday both the signed-in user and one
\* anonymous caller used up their caps; today one of the two has had k
\* record requests accepted one after another (k = 0: nobody has any usage
\* today).  Every such store is what k sequential record requests leave.
Yesterday == clock - 1
PriorIp == "ip1"
PriorFingerprint == <<"a">>

\* The locals of the i-th (from 0) of a caller's sequential record requests.
PriorLoc(isAuthenticated, day, i) ==
    [NoLoc EXCEPT
        !.clientIP = PriorIp,
        !.isAuthenticated = isAuthenticated,
        !.user = IF isAuthenticated THEN "u1" ELSE NoUser,
        !.fingerprint = PriorFingerprint,
        !.anonymousId = createSecureAnonymousId(PriorIp, PriorFingerprint),
        !.maxGenerations = maxGenerations(isAuthenticated),
        !.today = day,
        !.action = "record",
        !.currentUsage = i]

PriorUserRows(day, k) ==
    IF k = 0 THEN {}
    ELSE UpsertUserUsage({}, "u1", day, k)

PriorAnonymousRows(day, k) ==
    IF k = 0 THEN {}
    ELSE UpsertAnonymousUsage({}, createSecureAnonymousId(PriorIp, PriorFingerprint),
                              PriorIp, PriorFingerprint, day, k)

PriorLogs(isAuthenticated, day, k) ==
    SetToBag({LogEntry(PriorLoc(isAuthenticated, day, i), day) : i \in 0..(k - 1)})

PriorResponses(isAuthenticated, day, k) ==
    IF k = 0 THEN EmptyBag
    ELSE [a \in {Answer(PriorLoc(isAuthenticated, day, 0), 200)} |-> k]

\* The store after k sequential record requests of the one identity today.
InitStore(isAuthenticated, k) ==
    LET ku == IF isAuthenticated THEN k ELSE 0
        ka == IF isAuthenticated THEN 0 ELSE k
    IN  /\ clock = 1
        /\ user_usage =
               PriorUserRows(Yesterday, AUTHENTICATED_DAILY_LIMIT)
                   \cup PriorUserRows(clock, ku)
        /\ anonymous_usage =
               PriorAnonymousRows(Yesterday, ANONYMOUS_DAILY_LIMIT)
                   \cup PriorAnonymousRows(clock, ka)
        /\ generation_logs =
               PriorLogs(TRUE, Yesterday, AUTHENTICATED_DAILY_LIMIT)
                   (+) PriorLogs(FALSE, Yesterday, ANONYMOUS_DAILY_LIMIT)
                   (+) PriorLogs(isAuthenticated, clock, k)
        /\ responses =
               PriorResponses(TRUE, Yesterday, AUTHENTICATED_DAILY_LIMIT)
                   (+) PriorResponses(FALSE, Yesterday, ANONYMOUS_DAILY_LIMIT)
                   (+) PriorResponses(isAuthenticated, clock, k)

\* No invocation is running.
InitHandlers ==
    /\ pc = [p \in Procs |-> "idle"]
    /\ loc = [p \in Procs |-> NoLoc]
    /\ resp = [p \in Procs |-> NoResp]
    /\ nreq = 0

\* A browser that has never used the fallback and has no call in progress.
InitBrowser ==
    /\ localStorage = [key \in StorageKeys |-> NoItem]
    /\ session = FALSE
    /\ clientDate = 1
    /\ call = NoCall
    /\ device = getDeviceId(NoDevice)
    /\ flow = NoFlow

Init ==
    /\ \E isAuthenticated \in BOOLEAN :
       \E k \in 0..maxGenerations(isAuthenticated) :
           InitStore(isAuthenticated, k)
    /\ InitHandlers
    /\ req = NoReq
    /\ InitBrowser

Tables == <<user_usage, anonymous_usage, generation_logs>>

\* The handler returns r.
Respond(p, r) ==
    /\ resp' = [resp EXCEPT ![p] = r]
    /\ pc' = [pc EXCEPT ![p] = "done"]

\* ------------------------------------------------------------- the handler
\* IP validation, before anything else.
ValidateIp(p, xff, xri, cf) ==
    LET v == validateRequest(xff, xri, cf)
    IN  IF ~v.isValid
          THEN Respond(p, ErrorResp(400, "Invalid request")) /\ UNCHANGED loc
          ELSE /\ loc' = [loc EXCEPT ![p].clientIP = v.ip]
               /\ pc' = [pc EXCEPT ![p] = "auth"]
               /\ UNCHANGED resp

\* Lines from the credential check up to the branch on action: getUser,
\* body parsing, fingerprint validation, anonymous id, cap and today.
Identify(p, auth, action, fingerprint, success) ==
    LET user == Authenticate(auth)
        isAuthenticated == user # NoUser
        l == [loc[p] EXCEPT
                !.isAuthenticated = isAuthenticated,
                !.user = user,
                !.fingerprint = fingerprint,
                !.anonymousId = createSecureAnonymousId(loc[p].clientIP, fingerprint),
                !.maxGenerations = maxGenerations(isAuthenticated),
                !.today = clock,
                !.action = action]
    IN  IF fingerprint = <<>>
          THEN Respond(p, ErrorResp(400, "Fingerprint required")) /\ UNCHANGED loc
        ELSE IF InvalidFingerprint(fingerprint)
          THEN Respond(p, ErrorResp(500, "Internal server error")) /\ UNCHANGED loc
        ELSE IF action = "check"
          THEN /\ loc' = [loc EXCEPT ![p] = l]
               /\ pc' = [pc EXCEPT ![p] =
                           IF isAuthenticated THEN "check_user" ELSE "check_anon"]
               /\ UNCHANGED resp
        ELSE IF action = "record" /\ success
          THEN /\ loc' = [loc EXCEPT ![p] = l]
               /\ pc' = [pc EXCEPT ![p] =
                           IF isAuthenticated THEN "record_user" ELSE "record_anon"]
               /\ UNCHANGED resp
        ELSE Respond(p, ErrorResp(400, "Invalid action")) /\ UNCHANGED loc

\* A request arrives at an idle invocation.
Begin(p, budget, xRealIps) ==
    /\ pc[p] = "idle"
    /\ nreq < budget
    /\ nreq' = nreq + 1
    /\ \E xff \in XForwardedFor, xri \in xRealIps, cf \in CfConnectingIp :
           ValidateIp(p, xff, xri, cf)
    /\ UNCHANGED <<clock, user_usage, anonymous_usage, generation_logs, responses>>
    /\ UNCHANGED <<req, clientVars>>

\* The Authorization header and the body are read.
Resolve(p) ==
    /\ pc[p] = "auth"
    /\ \E auth \in AuthHeaders, action \in Actions,
          fingerprint \in Fingerprints, success \in BOOLEAN :
           Identify(p, auth, action, fingerprint, success)
    /\ UNCHANGED <<clock, user_usage, anonymous_usage, generation_logs,
                   responses, nreq>>
    /\ UNCHANGED <<req, clientVars>>

\* Variant: check creates or rewrites the user's row for today.
CheckUserTouchesRow(p) ==
    /\ pc[p] = "check_user"
    /\ LET l == loc[p]
           generationsUsed == SelectUserUsage(user_usage, l.user, l.today)
       IN  /\ Respond(p, CheckResponse(generationsUsed, l.maxGenerations,
                                       l.isAuthenticated))
           /\ user_usage' = UpsertUserUsage(user_usage, l.user, l.today,
                                            generationsUsed)
    /\ UNCHANGED <<clock, anonymous_usage, generation_logs, loc, responses, nreq>>
    /\ UNCHANGED <<req, clientVars>>

\* check, authenticated: read the user's row and answer.
CheckUser(p) ==
    /\ pc[p] = "check_user"
    /\ LET l == loc[p]
           generationsUsed == SelectUserUsage(user_usage, l.user, l.today)
       IN  Respond(p, CheckResponse(generationsUsed, l.maxGenerations, l.isAuthenticated))
    /\ UNCHANGED <<clock, user_usage, anonymous_usage, generation_logs, loc,
                   responses, nreq>>
    /\ UNCHANGED <<req, clientVars>>

\* check, anonymous: 1. read the own row.
CheckAnon(p) ==
    /\ pc[p] = "check_anon"
    /\ LET l == loc[p]
       IN  loc' = [loc EXCEPT ![p].generationsUsed =
                      SelectAnonymousData(anonymous_usage, l.anonymousId, l.today)]
    /\ pc' = [pc EXCEPT ![p] = "check_ip"]
    /\ UNCHANGED <<clock, user_usage, anonymous_usage, generation_logs, resp,
                   responses, nreq>>
    /\ UNCHANGED <<req, clientVars>>

\* check, anonymous: 2. read the other rows of the IP, take the maximum, answer.
CheckIp(p) ==
    /\ pc[p] = "check_ip"
    /\ LET l == loc[p]
           ipUsage == SelectIpUsageCheck(anonymous_usage, l.clientIP, l.today,
                                         l.anonymousId)
           generationsUsed == CheckGenerationsUsed(l.generationsUsed, ipUsage)
       IN  Respond(p, CheckResponse(generationsUsed, l.maxGenerations, l.isAuthenticated))
    /\ UNCHANGED <<clock, user_usage, anonymous_usage, generation_logs, loc,
                   responses, nreq>>
    /\ UNCHANGED <<req, clientVars>>

\* record: the final check on currentUsage, right after the last read.
FinalCheck(p, currentUsage) ==
    LET l == loc[p]
    IN  IF LimitExceeded(currentUsage, l.maxGenerations)
          THEN /\ Respond(p, ExceededResponse(currentUsage))
               /\ responses' = responses (+) SetToBag({Answer(l, 429)})
               /\ loc' = [loc EXCEPT ![p].currentUsage = currentUsage]
          ELSE /\ loc' = [loc EXCEPT ![p].currentUsage = currentUsage]
               /\ pc' = [pc EXCEPT ![p] = "upsert"]
               /\ UNCHANGED <<resp, responses>>

\* record, authenticated: read the user's row, final check.
RecordUser(p) ==
    /\ pc[p] = "record_user"
    /\ FinalCheck(p, SelectUserUsage(user_usage, loc[p].user, loc[p].today))
    /\ UNCHANGED <<clock, user_usage, anonymous_usage, generation_logs, nreq>>
    /\ UNCHANGED <<req, clientVars>>

\* record, anonymous: read the own row.
RecordAnon(p) ==
    /\ pc[p] = "record_anon"
    /\ LET l == loc[p]
       IN  loc' = [loc EXCEPT ![p].generationsUsed =
                      SelectAnonymousData(anonymous_usage, l.anonymousId, l.today)]
    /\ pc' = [pc EXCEPT ![p] = "record_ip"]
    /\ UNCHANGED <<clock, user_usage, anonymous_usage, generation_logs, resp,
                   responses, nreq>>
    /\ UNCHANGED <<req, clientVars>>

\* record, anonymous: read the rows of the IP, take the maximum, final check.
RecordIp(p) ==
    /\ pc[p] = "record_ip"
    /\ LET l == loc[p]
           ipUsage == SelectIpUsageRecord(anonymous_usage, l.clientIP, l.today)
       IN  FinalCheck(p, RecordCurrentUsage(l.generationsUsed, ipUsage))
    /\ UNCHANGED <<clock, user_usage, anonymous_usage, generation_logs, nreq>>
    /\ UNCHANGED <<req, clientVars>>

\* Variant: the upsert of a signed-in caller also writes the anonymous row
\* of its IP address and fingerprint.
UpsertBothTables(p) ==
    /\ pc[p] = "upsert"
    /\ LET l == loc[p]
       IN  /\ anonymous_usage' =
                 UpsertAnonymousUsage(anonymous_usage, l.anonymousId,
                     l.clientIP, l.fingerprint, l.today,
                     UpsertValue(l.currentUsage))
           /\ IF l.isAuthenticated
                 THEN user_usage' = UpsertUserUsage(user_usage, l.user, l.today,
                                                    UpsertValue(l.currentUsage))
                 ELSE UNCHANGED user_usage
    /\ pc' = [pc EXCEPT ![p] = "log"]
    /\ UNCHANGED <<clock, generation_logs, loc, resp, responses, nreq>>
    /\ UNCHANGED <<req, clientVars>>

\* record: upsert the identity's row with currentUsage + 1.
Upsert(p) ==
    /\ pc[p] = "upsert"
    /\ LET l == loc[p]
       IN  IF l.isAuthenticated
             THEN /\ user_usage' = UpsertUserUsage(user_usage, l.user, l.today,
                                                   UpsertValue(l.currentUsage))
                  /\ UNCHANGED anonymous_usage
             ELSE /\ anonymous_usage' =
                        UpsertAnonymousUsage(anonymous_usage, l.anonymousId,
                            l.clientIP, l.fingerprint, l.today,
                            UpsertValue(l.currentUsage))
                  /\ UNCHANGED user_usage
    /\ pc' = [pc EXCEPT ![p] = "log"]
    /\ UNCHANGED <<clock, generation_logs, loc, resp, responses, nreq>>
    /\ UNCHANGED <<req, clientVars>>

\* record: insert the audit row and answer success.
InsertLog(p) ==
    /\ pc[p] = "log"
    /\ LET l == loc[p]
       IN  /\ generation_logs' = generation_logs (+) SetToBag({LogEntry(l, clock)})
           /\ responses' = responses (+) SetToBag({Answer(l, 200)})
           /\ Respond(p, RecordedResponse(l.currentUsage, l.maxGenerations))
    /\ UNCHANGED <<clock, user_usage, anonymous_usage, loc, nreq>>
    /\ UNCHANGED <<req, clientVars>>

\* The invocation ends; its slot serves the next request.
Return(p) ==
    /\ pc[p] = "done"
    /\ pc' = [pc EXCEPT ![p] = "idle"]
    /\ loc' = [loc EXCEPT ![p] = NoLoc]
    /\ resp' = [resp EXCEPT ![p] = NoResp]
    /\ UNCHANGED <<clock, user_usage, anonymous_usage, generation_logs,
                   responses, nreq>>
    /\ UNCHANGED <<req, clientVars>>

Step(p, budget, xRealIps) ==
    \/ Begin(p, budget, xRealIps)
    \/ Resolve(p)
    \/ CheckUser(p)
    \/ CheckAnon(p)
    \/ CheckIp(p)
    \/ RecordUser(p)
    \/ RecordAnon(p)
    \/ RecordIp(p)
    \/ Upsert(p)
    \/ InsertLog(p)
    \/ Return(p)

\* Requests handled concurrently, all from one client address.
Next == \E p \in Procs : Step(p, MaxConcurrentRequests, XRealIpOneProxy)

Spec == Init /\ [][Next]_vars

\* Requests handled one at a time, from two client addresses.
NextSeq == \E p \in SeqProcs : Step(p, MaxRequests, XRealIp)

SpecSeq == Init /\ [][NextSeq]_vars

\* ------------------------------------------------ one request, followed
\* The request req arrives: IP validation of its headers.
Receive(p) ==
    /\ pc[p] = "idle"
    /\ nreq = 0
    /\ nreq' = 1
    /\ ValidateIp(p, req.xff, req.xri, req.cf)
    /\ UNCHANGED <<clock, user_usage, anonymous_usage, generation_logs, responses>>
    /\ UNCHANGED <<req, clientVars>>

\* Its Authorization header and body are read.
ResolveRequest(p) ==
    /\ pc[p] = "auth"
    /\ Identify(p, req.auth, req.action, req.fingerprint, req.success)
    /\ UNCHANGED <<clock, user_usage, anonymous_usage, generation_logs,
                   responses, nreq>>
    /\ UNCHANGED <<req, clientVars>>

InitRequest ==
    /\ \E isAuthenticated \in BOOLEAN :
       \E k \in 0..maxGenerations(isAuthenticated) :
           InitStore(isAuthenticated, k)
    /\ InitHandlers
    /\ req \in Requests
    /\ InitBrowser

NextRequest ==
    \E p \in SeqProcs :
        \/ Receive(p)
        \/ ResolveRequest(p)
        \/ CheckUser(p)
        \/ CheckAnon(p)
        \/ CheckIp(p)
        \/ RecordUser(p)
        \/ RecordAnon(p)
        \/ RecordIp(p)
        \/ Upsert(p)
        \/ InsertLog(p)
        \/ Return(p)

\* One request, any headers and body, against the store some way into a day.
SpecRequest == InitRequest /\ [][NextRequest]_vars

\* ------------------------------------------------- the browser's service
\* Local calendar days a behaviour spans.
MaxClientDays == 2
\* Device ids generated in a behaviour.
MaxDeviceIds == 3

handlerVars == <<clock, user_usage, anonymous_usage, generation_logs,
                 pc, loc, resp, responses, nreq, req>>

\* What the rate-limit function may answer to a call, and no answer at all
\* (not deployed, network failure).  A record request with success=false
\* is only ever answered with an error.
Replies(op, success, isAuthenticated) ==
    LET max == maxGenerations(isAuthenticated)
        answered(r) == [reachable |-> TRUE, status |-> r.status, data |-> r]
    IN  {NoReply, answered(ErrorResp(400, "Invalid request")),
         answered(ErrorResp(500, "Internal server error"))}
        \cup (IF op = "checkUsageLimit"
                THEN {answered(CheckResponse(u, max, isAuthenticated)) : u \in {0, max}}
              ELSE IF success
                THEN {answered(RecordedResponse(max - 1, max)),
                      answered(ExceededResponse(max))}
              ELSE {answered(ErrorResp(400, "Invalid action"))})

\* response.error of functions.invoke: set when the function could not be
\* reached and when it answered with a status outside 2xx.
invokeError(reply) == ~reply.reachable \/ reply.status # 200

\* Variant: the stored item is taken whatever its date.
usageDataAnyDate(item, today) ==
    IF item # NoItem THEN item
    ELSE [date |-> today, count |-> 0]

\* The usage data for today: the stored item when its date is today.
usageData(item, today) ==
    IF item # NoItem /\ item.date = today THEN item
    ELSE [date |-> today, count |-> 0]

getFallbackUsageStats(storage, isAuthenticated, today) ==
    LET max == IF isAuthenticated THEN 10 ELSE 5
        generationsUsed == usageData(storage[storageKey(isAuthenticated)], today).count
        generationsRemaining == Max(0, max - generationsUsed)
    IN  [NoResult EXCEPT
            !.generationsUsed = generationsUsed,
            !.generationsRemaining = generationsRemaining,
            !.canGenerate = generationsRemaining > 0,
            !.isAuthenticated = isAuthenticated,
            !.maxGenerations = max,
            !.limitType = IF isAuthenticated THEN "authenticated" ELSE "anonymous"]

\* Variant: the incremented count is stored as it is.
incrementedCountUncapped(count, max) == count + 1

\* usageData.count after the increment.
incrementedCount(count, max) == Min(count + 1, max)

\* localStorage after recordFallbackGeneration.
recordFallbackGeneration(storage, isAuthenticated, today) ==
    LET max == IF isAuthenticated THEN 10 ELSE 5
        key == storageKey(isAuthenticated)
        data == usageData(storage[key], today)
    IN  [storage EXCEPT ![key] =
            [data EXCEPT !.count = incrementedCount(data.count, max)]]

\* checkUsageLimit's return value when the function answered.
StatsOf(data) ==
    [NoResult EXCEPT
        !.generationsUsed = data.generationsUsed,
        !.generationsRemaining = data.generationsRemaining,
        !.canGenerate = data.canGenerate,
        !.isAuthenticated = data.isAuthenticated,
        !.maxGenerations = IF data.isAuthenticated THEN 10 ELSE 5,
        !.limitType = data.limitType]

\* recordGeneration's return value when the function answered.
RecordedOf(data) ==
    [NoResult EXCEPT
        !.success = data.success,
        !.generationsUsed = data.generationsUsed,
        !.generationsRemaining = data.generationsRemaining]

\* checkUsageLimit is called: the session is read, the request is sent.
CallCheckUsageLimit ==
    /\ call.pc = "idle"
    /\ call' = [NoCall EXCEPT !.op = "checkUsageLimit", !.pc = "invoked",
                              !.isAuthenticated = session]
    /\ UNCHANGED <<localStorage, session, clientDate, device, flow, handlerVars>>

\* recordGeneration(success) is called.
CallRecordGeneration ==
    /\ call.pc = "idle"
    /\ \E success \in BOOLEAN :
          call' = [NoCall EXCEPT !.op = "recordGeneration", !.pc = "invoked",
                                 !.success = success,
                                 !.isAuthenticated = session]
    /\ UNCHANGED <<localStorage, session, clientDate, device, flow, handlerVars>>

\* What checkUsageLimit returns once functions.invoke has resolved with
\* reply: the answer's data, or the device's own count on any error.
checkUsageLimitSettled(reply) ==
    IF invokeError(reply)
      THEN [call EXCEPT
              !.pc = "returned",
              !.reply = reply,
              !.console = "Edge Function not available, using fallback",
              !.result = getFallbackUsageStats(localStorage,
                             call.isAuthenticated, clientDate)]
      ELSE [call EXCEPT
              !.pc = "returned",
              !.reply = reply,
              !.result = StatsOf(reply.data)]

\* What recordGeneration does once functions.invoke has resolved with reply:
\* the answer is returned, or the catch block records in localStorage and
\* returns success.
recordGenerationSettled(reply) ==
    IF invokeError(reply) /\ call.success /\ ~device.writable
      THEN \* setItem throws out of the catch block
           /\ call' = [call EXCEPT
                 !.pc = "returned",
                 !.reply = reply,
                 !.console = "Edge Function not available, using fallback recording",
                 !.rejected = TRUE]
           /\ UNCHANGED localStorage
    ELSE IF invokeError(reply)
      THEN /\ localStorage' =
                 IF call.success
                   THEN recordFallbackGeneration(localStorage,
                            call.isAuthenticated, clientDate)
                   ELSE localStorage
           /\ call' = [call EXCEPT
                 !.pc = "returned",
                 !.reply = reply,
                 !.console = "Edge Function not available, using fallback recording",
                 !.result = [NoResult EXCEPT !.success = TRUE]]
      ELSE /\ call' = [call EXCEPT
                 !.pc = "returned",
                 !.reply = reply,
                 !.result = RecordedOf(reply.data)]
           /\ UNCHANGED localStorage

\* functions.invoke resolves for checkUsageLimit with one of the answers the
\* function can give, or with none.
CheckUsageLimitSettles ==
    /\ call.pc = "invoked"
    /\ call.op = "checkUsageLimit"
    /\ \E reply \in Replies(call.op, call.success, call.isAuthenticated) :
          call' = checkUsageLimitSettled(reply)
    /\ UNCHANGED <<localStorage, session, clientDate, device, flow, handlerVars>>

\* functions.invoke resolves for recordGeneration.
RecordGenerationSettles ==
    /\ call.pc = "invoked"
    /\ call.op = "recordGeneration"
    /\ \E reply \in Replies(call.op, call.success, call.isAuthenticated) :
          recordGenerationSettled(reply)
    /\ UNCHANGED <<session, clientDate, device, flow, handlerVars>>

\* The caller has the return value; the service is ready for the next call.
CallReturns ==
    /\ call.pc = "returned"
    /\ call' = NoCall
    /\ UNCHANGED <<localStorage, session, clientDate, device, flow, handlerVars>>

\* clearLocalData: every usage key and the device id are removed, and the
\* new device id has no items.
clearLocalData ==
    /\ device.minted < MaxDeviceIds
    /\ localStorage' = [key \in StorageKeys |-> NoItem]
    /\ device' = getDeviceId([device EXCEPT !.stored = 0])
    /\ UNCHANGED <<session, clientDate, call, flow, handlerVars>>

\* The user signs in or out.
SessionChanges ==
    /\ session' = ~session
    /\ UNCHANGED <<localStorage, clientDate, call, device, flow, handlerVars>>

\* Local midnight passes.
Midnight ==
    /\ clientDate < MaxClientDays
    /\ clientDate' = clientDate + 1
    /\ UNCHANGED <<localStorage, session, call, device, flow, handlerVars>>

InitClient ==
    /\ InitStore(FALSE, 0)
    /\ InitHandlers
    /\ req = NoReq
    /\ InitBrowser

NextClient ==
    \/ CallCheckUsageLimit
    \/ CallRecordGeneration
    \/ CheckUsageLimitSettles
    \/ RecordGenerationSettles
    \/ CallReturns
    \/ clearLocalData
    \/ SessionChanges
    \/ Midnight

\* The browser's service, the rate-limit function answering as it may.
SpecClient == InitClient /\ [][NextClient]_vars

\* ------------------------------------------------------- the device id
\* The page is loaded again: the module's new SecureUsageService() calls
\* getDeviceId; a call in progress is gone with the old page.
PageReload ==
    /\ device.stored # 0 \/ device.minted < MaxDeviceIds
    /\ device' = getDeviceId(device)
    /\ call' = NoCall
    /\ UNCHANGED <<localStorage, session, clientDate, flow, handlerVars>>

\* The storage quota runs out, or room is made again.
StorageQuotaChanges ==
    /\ device' = [device EXCEPT !.writable = ~device.writable]
    /\ UNCHANGED <<localStorage, session, clientDate, call, flow, handlerVars>>

InitDevice ==
    /\ InitStore(FALSE, 0)
    /\ InitHandlers
    /\ req = NoReq
    /\ localStorage = [key \in StorageKeys |-> NoItem]
    /\ session = FALSE
    /\ clientDate = 1
    /\ call = NoCall
    /\ \E writable \in BOOLEAN :
          device = getDeviceId([NoDevice EXCEPT !.writable = writable])
    /\ flow = NoFlow

NextDevice ==
    \/ PageReload
    \/ StorageQuotaChanges
    \/ clearLocalData
    \/ CallCheckUsageLimit
    \/ CallRecordGeneration
    \/ CheckUsageLimitSettles
    \/ RecordGenerationSettles
    \/ CallReturns
    \/ SessionChanges

\* The browser within one day, with page reloads and a storage that may
\* refuse writes.
SpecDevice == InitDevice /\ [][NextDevice]_vars

\* ================================================================ claims
Quiescent == \A p \in Procs : pc[p] \in {"idle", "done"}

ClientIPs == {"ip1", "ip2"}
AnonymousIds == {<<ip, f>> : ip \in ClientIPs, f \in {<<"a">>, <<"b">>}}
CheckPcs == {"check_user", "check_anon", "check_ip"}

\* generations_used of the identity's row for the day, 0 when there is none.
UserRow(user, day) ==
    LET rs == {r \in user_usage : r.user_id = user /\ r.date = day}
    IN  IF rs = {} THEN 0 ELSE (CHOOSE r \in rs : TRUE).generations_used

AnonRow(id, day) ==
    LET rs == {r \in anonymous_usage : r.anonymous_id = id /\ r.date = day}
    IN  IF rs = {} THEN 0 ELSE (CHOOSE r \in rs : TRUE).generations_used

\* The other anonymous identities of the same IP address.
OtherIds(id) == {o \in AnonymousIds : o[1] = id[1] /\ o # id}

RECURSIVE RowsTotal(_, _)
RowsTotal(ids, day) ==
    IF ids = {} THEN 0
    ELSE LET i == CHOOSE x \in ids : TRUE
         IN  AnonRow(i, day) + RowsTotal(ids \ {i}, day)

\* Effective usage as the data model defines it.
EffectiveAnon(id, day) == Max(AnonRow(id, day), RowsTotal(OtherIds(id), day))

UserKey(user) == [user_id |-> user, anonymous_id |-> NoAnonId]
AnonKey(id) == [user_id |-> NoUser, anonymous_id |-> id]

\* record requests of the identity accepted / rejected on the day.
Accepted(key, day) ==
    CopiesIn([user_id |-> key.user_id, anonymous_id |-> key.anonymous_id,
              date |-> day, status |-> 200], responses)
Rejected(key, day) ==
    CopiesIn([user_id |-> key.user_id, anonymous_id |-> key.anonymous_id,
              date |-> day, status |-> 429], responses)

\* ---- C1 ----------------------------------------------------------------
\* C1: in every reachable state, whatever the interleaving of check and
\* record requests, every user_usage row has generations_used <= 10 and
\* every anonymous_usage row has generations_used <= 5.
C1_RowsWithinCap ==
    /\ \A r \in user_usage : r.generations_used <= 10
    /\ \A r \in anonymous_usage : r.generations_used <= 5

\* An upsert of this behaviour has just stored the cap in an anonymous row.
C1_Witness ==
    \E p \in Procs :
        /\ pc[p] = "log"
        /\ ~loc[p].isAuthenticated
        /\ AnonRow(loc[p].anonymousId, loc[p].today) = 5

\* ---- C2 ----------------------------------------------------------------
\* C2: once all record(success=true) requests of an identity have completed,
\* however they interleaved, the identity's stored generations_used for the
\* day equals the number of those requests that fit under the cap,
\* min(N, cap) counting the day's earlier ones: no update is lost.
C2_NoLostUpdate ==
    Quiescent =>
        /\ UserRow("u1", clock) =
              Min(10, Accepted(UserKey("u1"), clock) + Rejected(UserKey("u1"), clock))
        /\ \A id \in AnonymousIds :
              (\A o \in OtherIds(id) :
                    Accepted(AnonKey(o), clock) + Rejected(AnonKey(o), clock) = 0)
              => AnonRow(id, clock) =
                    Min(5, Accepted(AnonKey(id), clock) + Rejected(AnonKey(id), clock))

\* ---- C3 ----------------------------------------------------------------
\* C3: for any identity and day, the record(success=true) requests answered
\* with success never number more than the cap (the day's earlier accepted
\* requests being the usage that existed before), even with several in
\* flight at once.
C3_AcceptedWithinCap ==
    /\ Accepted(UserKey("u1"), clock) <= 10
    /\ \A id \in AnonymousIds : Accepted(AnonKey(id), clock) <= 5

\* ---- C4 ----------------------------------------------------------------
\* Effective usage of the caller an invocation serves, in the current store.
EffectiveUsage(l) ==
    IF l.isAuthenticated THEN UserRow(l.user, l.today)
    ELSE EffectiveAnon(l.anonymousId, l.today)

\* C4: a record(success=true) request whose double check finds the caller's
\* effective usage at or above the cap is answered 429 with
\* canGenerate=false and generationsRemaining=0, and no usage row changes.
C4_ExhaustedIsRejected ==
    [][\A p \in Procs :
          (/\ pc[p] \in {"record_user", "record_ip"}
           /\ pc'[p] # pc[p]
           /\ EffectiveUsage(loc[p]) >= (IF loc[p].isAuthenticated THEN 10 ELSE 5))
          => /\ pc'[p] = "done"
             /\ resp'[p].status = 429
             /\ resp'[p].canGenerate = FALSE
             /\ resp'[p].generationsRemaining = 0
             /\ UNCHANGED <<user_usage, anonymous_usage>>]_vars

\* A record request of a caller at the cap has been answered 429.
C4_Witness ==
    \E p \in Procs :
        /\ pc[p] = "done"
        /\ loc[p].action = "record"
        /\ resp[p].status = 429
        /\ EffectiveUsage(loc[p]) >= loc[p].maxGenerations

\* ---- C5 ----------------------------------------------------------------
\* C5: no step of a check request changes the usage tables or the attempt
\* log: they are the same before and after every step that starts, advances
\* or answers a check.
C5_CheckChangesNothing ==
    [][\A p \in Procs :
          (\/ pc[p] \in CheckPcs /\ pc'[p] # pc[p]
           \/ pc[p] = "auth" /\ pc'[p] \in CheckPcs)
          => UNCHANGED <<user_usage, anonymous_usage, generation_logs>>]_vars

\* A check for a signed-in user without a row for today has been answered.
C5_Witness ==
    \E p \in Procs :
        /\ pc[p] = "done"
        /\ loc[p].action = "check"
        /\ loc[p].isAuthenticated
        /\ resp[p].status = 200
        /\ resp[p].generationsUsed = 0

\* ---- C6 ----------------------------------------------------------------
\* C6: check for an anonymous identity reports generationsUsed = max(own
\* row for today, sum of the other rows of the same IP for today),
\* canGenerate = (generationsUsed < 5) and generationsRemaining =
\* max(0, 5 - generationsUsed); for an authenticated identity it reports
\* the user's own row for today against cap 10.
C6_CheckReports ==
    \A p \in Procs :
        (pc[p] = "done" /\ loc[p].action = "check") =>
            LET l == loc[p]
                used == IF l.isAuthenticated THEN UserRow(l.user, clock)
                        ELSE Max(AnonRow(l.anonymousId, clock),
                                 RowsTotal(OtherIds(l.anonymousId), clock))
                cap == IF l.isAuthenticated THEN 10 ELSE 5
            IN  /\ resp[p].status = 200
                /\ resp[p].generationsUsed = used
                /\ resp[p].canGenerate = (used < cap)
                /\ resp[p].generationsRemaining = Max(0, cap - used)

\* An anonymous check was answered with the other fingerprint's usage, which
\* exceeds the caller's own.
C6_Witness ==
    \E p \in Procs :
        /\ pc[p] = "done"
        /\ loc[p].action = "check"
        /\ ~loc[p].isAuthenticated
        /\ AnonRow(loc[p].anonymousId, clock) > 0
        /\ resp[p].generationsUsed > AnonRow(loc[p].anonymousId, clock)

\* ---- C7 ----------------------------------------------------------------
\* C7: in every store state and for every anonymous identity, the
\* currentUsage record's double check computes equals the generationsUsed
\* check reports.
C7_SameDerivation ==
    \A id \in AnonymousIds :
        RecordUsage(anonymous_usage, id, id[1], clock)
            = CheckUsage(anonymous_usage, id, id[1], clock)

\* ---- C8 ----------------------------------------------------------------
\* C8 as stated: once the rows of an IP address add up to 5 for the day,
\* check for a caller from that address reports canGenerate=false.
C8_CombinedBlocks ==
    \A p \in Procs :
        (/\ pc[p] = "done"
         /\ loc[p].action = "check"
         /\ ~loc[p].isAuthenticated
         /\ AnonRow(loc[p].anonymousId, clock)
                + RowsTotal(OtherIds(loc[p].anonymousId), clock) >= 5)
        => resp[p].canGenerate = FALSE

\* C8 amended: once one caller's own row for the day has reached 5, check
\* for any caller from that IP address, the same fingerprint or a new one,
\* reports canGenerate=false.
C8_ExhaustedBlocksIp ==
    \A p \in Procs :
        (/\ pc[p] = "done"
         /\ loc[p].action = "check"
         /\ ~loc[p].isAuthenticated
         /\ \E id \in AnonymousIds :
                id[1] = loc[p].clientIP /\ AnonRow(id, clock) >= 5)
        => resp[p].canGenerate = FALSE

\* A caller with a fingerprint that has no row is refused because the other
\* fingerprint of its IP address holds 5.
C8_Witness ==
    \E p \in Procs :
        /\ pc[p] = "done"
        /\ loc[p].action = "check"
        /\ ~loc[p].isAuthenticated
        /\ AnonRow(loc[p].anonymousId, clock) = 0
        /\ \E id \in OtherIds(loc[p].anonymousId) : AnonRow(id, clock) = 5
        /\ resp[p].canGenerate = FALSE

C10_AnonymousDay ==
    \A p \in Procs :
        (/\ pc[p] = "done"
         /\ loc[p].action \in {"check", "record"}
         /\ ~loc[p].isAuthenticated
         /\ RowsTotal(OtherIds(loc[p].anonymousId), clock) = 0)
        => LET n == Accepted(AnonKey(loc[p].anonymousId), clock)
           IN  IF loc[p].action = "check"
                 THEN /\ resp[p].generationsUsed = n
                      /\ resp[p].generationsRemaining = 5 - n
                      /\ resp[p].canGenerate = (n < 5)
                 ELSE \/ /\ resp[p].status = 200
                         /\ n \in 1..5
                         /\ resp[p].generationsUsed = n
                         /\ resp[p].generationsRemaining = 5 - n
                      \/ /\ resp[p].status = 429
                         /\ n = 5
                         /\ resp[p].generationsRemaining = 0

\* After five accepted record requests a further one has been answered 429.
C10_Witness ==
    \E p \in Procs :
        /\ pc[p] = "done"
        /\ loc[p].action = "record"
        /\ ~loc[p].isAuthenticated
        /\ RowsTotal(OtherIds(loc[p].anonymousId), clock) = 0
        /\ resp[p].status = 429
        /\ resp[p].generationsRemaining = 0
        /\ Accepted(AnonKey(loc[p].anonymousId), clock) = 5


\* ---- C11 ---------------------------------------------------------------
\* C11: a request with a verified credential goes down the authenticated
\* branch, and none of its steps changes an anonymous_usage row; its check
\* reports the user's own row for today against cap 10, whatever the
\* anonymous rows of its IP address and fingerprint hold, and its record is
\* refused only when the user's own row has reached 10.
C11_AuthenticatedIndependent ==
    [][\A p \in Procs :
          /\ (pc[p] = "auth" /\ loc'[p].isAuthenticated)
                => pc'[p] \in {"check_user", "record_user"}
          /\ (loc[p].isAuthenticated /\ pc'[p] # pc[p])
                => /\ anonymous_usage' = anonymous_usage
                   /\ pc[p] = "check_user" =>
                        LET used == UserRow(loc[p].user, loc[p].today)
                        IN  /\ resp'[p].generationsUsed = used
                            /\ resp'[p].generationsRemaining = Max(0, 10 - used)
                            /\ resp'[p].canGenerate = (used < 10)
                            /\ resp'[p].limitType = "authenticated"
                   /\ pc[p] = "record_user" =>
                        (pc'[p] = "done") = (UserRow(loc[p].user, loc[p].today) >= 10)]_vars

\* The caller's anonymous identity holds 5 today; signed in, its check is
\* answered with no usage and all 10 remaining.
C11_Witness ==
    \E p \in Procs :
        /\ pc[p] = "done"
        /\ loc[p].action = "check"
        /\ loc[p].isAuthenticated
        /\ AnonRow(createSecureAnonymousId(loc[p].clientIP, loc[p].fingerprint),
                   clock) = 5
        /\ resp[p].generationsUsed = 0
        /\ resp[p].generationsRemaining = 10
        /\ resp[p].canGenerate


\* ---- C12 ---------------------------------------------------------------
\* C12: the step that answers a record request with success=false (from a
\* determinable IP address, with a valid fingerprint) appends one entry
\* with success=false to the attempt log and leaves the usage tables as
\* they are.
C12_FailedRecordLogged ==
    [][\A p \in SeqProcs :
          (/\ pc[p] = "auth"
           /\ pc'[p] = "done"
           /\ req.action = "record"
           /\ ~req.success
           /\ ~InvalidFingerprint(req.fingerprint))
          => /\ UNCHANGED <<user_usage, anonymous_usage>>
             /\ \E e \in BagToSet(generation_logs') :
                   /\ e.success = FALSE
                   /\ generation_logs' = generation_logs (+) SetToBag({e})]_vars

\* ---- C13 ---------------------------------------------------------------
\* C13: the step that answers a record(success=true) request which reached
\* the final check, with success or with 429, leaves the attempt log one
\* entry larger, and no step of any request removes or changes an entry.
C13_EveryAttemptLogged ==
    [][/\ generation_logs \sqsubseteq generation_logs'
       /\ \A p \in Procs :
             (/\ pc[p] \in {"record_user", "record_ip", "log"}
              /\ pc'[p] = "done")
             => BagCardinality(generation_logs')
                    = BagCardinality(generation_logs) + 1]_vars


\* ---- C14 ---------------------------------------------------------------
\* The request carries no bearer credential, or one that does not verify.
NoVerifiedCredential(r) ==
    ~(r.auth.scheme = "Bearer" /\ r.auth.token \in {"tok_u1", "tok_u2"})

\* The request has a determinable IP address, a valid fingerprint and an
\* action the handler serves.
Served(r) ==
    /\ validateRequest(r.xff, r.xri, r.cf).isValid
    /\ ~InvalidFingerprint(r.fingerprint)
    /\ r.action = "check" \/ (r.action = "record" /\ r.success)

\* C14: a request whose bearer credential is absent or fails verification
\* is not rejected for it: it is handled as the anonymous identity of its
\* IP address and fingerprint, with cap 5, answered 200 or (record at the
\* cap) 429, a check with limitType 'anonymous'.
C14_BadCredentialIsAnonymous ==
    \A p \in SeqProcs :
        (NoVerifiedCredential(req) /\ Served(req) /\ pc[p] \notin {"idle", "auth"})
        => /\ ~loc[p].isAuthenticated
           /\ loc[p].anonymousId =
                 createSecureAnonymousId(validateRequest(req.xff, req.xri, req.cf).ip,
                                         req.fingerprint)
           /\ loc[p].maxGenerations = 5
           /\ pc[p] \notin {"check_user", "record_user"}
           /\ pc[p] = "done" =>
                 /\ resp[p].status \in {200, 429}
                 /\ resp[p].status = 429 =>
                       EffectiveAnon(loc[p].anonymousId, clock) >= 5
                 /\ req.action = "check" =>
                       /\ resp[p].status = 200
                       /\ resp[p].limitType = "anonymous"
                       /\ ~resp[p].isAuthenticated
                       /\ resp[p].generationsUsed + resp[p].generationsRemaining >= 5
                       /\ resp[p].generationsRemaining <= 5

\* A check carrying a bearer token that does not verify has been answered
\* as anonymous.
C14_Witness ==
    \E p \in SeqProcs :
        /\ pc[p] = "done"
        /\ req.auth = [scheme |-> "Bearer", token |-> "bad"]
        /\ req.action = "check"
        /\ resp[p].status = 200
        /\ resp[p].limitType = "anonymous"


\* ---- C15 ---------------------------------------------------------------
\* C15: a request (from a determinable IP address) whose fingerprint is
\* missing or longer than 500 characters is answered HTTP 400, and none of
\* its steps reads or writes the usage tables or the attempt log.
C15_BadFingerprintIs400 ==
    [][\A p \in SeqProcs :
          (/\ validateRequest(req.xff, req.xri, req.cf).isValid
           /\ req.fingerprint = <<>> \/ Len(req.fingerprint) > 500)
          => /\ UNCHANGED <<user_usage, anonymous_usage, generation_logs>>
             /\ pc'[p] \in {"idle", "auth", "done"}
             /\ pc'[p] = "done" => resp'[p].status = 400]_vars

\* ---- C16 ---------------------------------------------------------------
\* None of the three headers names a client IP address.
NoClientIp(r) == r.xff = <<>> /\ r.xri = NoHeader /\ r.cf = NoHeader

\* C16: the client IP is the first x-forwarded-for entry, else x-real-ip,
\* else cf-connecting-ip; a request with none of them is answered HTTP 400
\* by its first step, with no credential verified (the locals still hold
\* no user, also for a token that would verify) and no table read or
\* written.
C16_NoIpIs400 ==
    [][\A p \in SeqProcs :
          (pc[p] = "idle" /\ pc'[p] # "idle")
          => IF NoClientIp(req)
               THEN /\ pc'[p] = "done"
                    /\ resp'[p].status = 400
                    /\ resp'[p].error = "Invalid request"
                    /\ loc'[p] = NoLoc
                    /\ UNCHANGED <<user_usage, anonymous_usage, generation_logs>>
               ELSE /\ pc'[p] = "auth"
                    /\ loc'[p].clientIP =
                          IF req.xff # <<>> THEN req.xff[1]
                          ELSE IF req.xri # NoHeader THEN req.xri
                          ELSE req.cf]_vars

\* A request without any of the headers, carrying a token that verifies,
\* has been answered 400 with no user resolved.
C16_Witness ==
    \E p \in SeqProcs :
        /\ pc[p] = "done"
        /\ NoClientIp(req)
        /\ req.auth = [scheme |-> "Bearer", token |-> "tok_u1"]
        /\ resp[p].status = 400
        /\ loc[p].user = NoUser


\* ---- C17 ---------------------------------------------------------------
\* The (ip, fingerprint) pairs the handler accepts.
AcceptedPairs ==
    {<<ip, f>> : ip \in ClientIPs,
                 f \in {g \in FingerprintsPunctuated : g # <<>> /\ Len(g) <= 500}}

\* The pair of the request an invocation has identified.
PairOf(p) == <<loc[p].clientIP, loc[p].fingerprint>>

\* The letters and digits of a fingerprint, in order.
Alphanumerics(f) == SelectSeq(f, LAMBDA c : c \in {"a", "b"})

\* C17 as stated: the id the handler derived for a request equals the id of
\* an accepted pair exactly when the request's pair is that pair.
C17_IdsDiffer ==
    \A p \in SeqProcs : \A q \in AcceptedPairs :
        loc[p].action # "" =>
            ((loc[p].anonymousId = createSecureAnonymousId(q[1], q[2]))
                <=> (PairOf(p) = q))

\* C17 amended: the id the handler derived for a request equals the id of
\* an accepted pair exactly when the two pairs have the same ip and their
\* fingerprints the same letters and digits.
C17_IdsDifferUpToStripping ==
    \A p \in SeqProcs : \A q \in AcceptedPairs :
        loc[p].action # "" =>
            ((loc[p].anonymousId = createSecureAnonymousId(q[1], q[2]))
                <=> (/\ loc[p].clientIP = q[1]
                     /\ Alphanumerics(loc[p].fingerprint) = Alphanumerics(q[2])))

\* A request with fingerprint "a-" was given the id under which the rows of
\* the caller with fingerprint "a" are stored.
C17_Witness ==
    \E p \in SeqProcs :
        /\ loc[p].fingerprint = <<"a", "-">>
        /\ loc[p].clientIP = PriorIp
        /\ pc[p] \in {"check_ip", "record_ip"}
        /\ loc[p].generationsUsed > 0
        /\ loc[p].anonymousId = createSecureAnonymousId(PriorIp, PriorFingerprint)


\* ---- C18 ---------------------------------------------------------------
\* C18: when recordGeneration(true) could not reach the rate-limit
\* function, it does not return success to its caller.
C18_RecordFailsClosed ==
    (/\ call.pc = "returned"
     /\ call.op = "recordGeneration"
     /\ call.success
     /\ ~call.reply.reachable)
    => ~call.result.success

\* ---- C19 ---------------------------------------------------------------
\* C19: a call the rate-limit function has answered never takes the
\* fallback path: it logs no fallback line, leaves the fallback items as
\* they are, and when the answer is HTTP 429 or 400 it does not return
\* success.
C19_FallbackOnlyWhenUnreachable ==
    [][(/\ call.pc = "invoked"
        /\ call'.pc = "returned"
        /\ call'.reply.reachable)
       => /\ call'.console = ""
          /\ localStorage' = localStorage
          /\ call'.reply.status \in {400, 429} => ~call'.result.success]_vars

\* ---- C20 ---------------------------------------------------------------
\* The count stored under the key for the day, 0 when the item is of
\* another day or absent.
StoredCount(storage, key, day) ==
    IF storage[key].date = day THEN storage[key].count ELSE 0

FallbackCap(key) == IF key = "auth_usage" THEN 10 ELSE 5

\* C20: whatever fallback checks and records have happened, the stored
\* count never exceeds 10 under the authenticated key and 5 under the
\* anonymous key, and the stats a fallback check returns have
\* canGenerate=false exactly when today's stored count has reached the cap.
C20_FallbackWithinCap ==
    [][/\ \A key \in StorageKeys : localStorage'[key].count <= FallbackCap(key)
       /\ (/\ call.pc = "invoked"
           /\ call'.pc = "returned"
           /\ call.op = "checkUsageLimit"
           /\ call'.console # "")
          => LET key == storageKey(call.isAuthenticated)
                 count == StoredCount(localStorage, key, clientDate)
             IN  /\ call'.result.canGenerate = (count < FallbackCap(key))
                 /\ call'.result.generationsUsed = count
                 /\ call'.result.maxGenerations = FallbackCap(key)]_vars

\* After five fallback records today, a fallback check of the anonymous
\* caller has returned canGenerate=false.
C20_Witness ==
    /\ call.pc = "returned"
    /\ call.op = "checkUsageLimit"
    /\ call.console # ""
    /\ ~call.isAuthenticated
    /\ localStorage["anon_usage"] = [date |-> clientDate, count |-> 5]
    /\ ~call.result.canGenerate
    /\ call.result.generationsRemaining = 0


\* ---- C25 ---------------------------------------------------------------
Users == {"u1", "u2"}
Days == {Yesterday, clock}

\* C25: no step of a request of identity A changes the usage row, or what
\* check would report, of an identity B that is another authenticated user
\* or an anonymous identity of another IP address (or, A being
\* authenticated, any anonymous identity; A being anonymous, any user); and
\* the check of an anonymous caller whose IP address has no rows today
\* reports generationsUsed = 0 whatever other addresses have used.
C25_UnrelatedUntouched ==
    [][\A p \in SeqProcs :
          (pc[p] \notin {"idle", "auth"} /\ loc[p].action # "")
          => /\ \A u \in Users : \A day \in Days :
                   (~loc[p].isAuthenticated \/ u # loc[p].user)
                   => UserRow(u, day)' = UserRow(u, day)
             /\ \A id \in AnonymousIds : \A day \in Days :
                   (loc[p].isAuthenticated \/ id[1] # loc[p].clientIP)
                   => /\ AnonRow(id, day)' = AnonRow(id, day)
                      /\ CheckUsage(anonymous_usage', id, id[1], day)
                            = CheckUsage(anonymous_usage, id, id[1], day)
             /\ (/\ pc[p] = "check_ip"
                 /\ pc'[p] = "done"
                 /\ \A r \in anonymous_usage :
                       ~(r.ip_address = loc[p].clientIP /\ r.date = clock))
                => /\ resp'[p].generationsUsed = 0
                   /\ resp'[p].canGenerate]_vars

\* User u2's first record today has been accepted and stored while the
\* row of u1 holds 10.
C25_Witness ==
    \E p \in SeqProcs :
        /\ pc[p] = "done"
        /\ loc[p].action = "record"
        /\ loc[p].user = "u2"
        /\ resp[p].status = 200
        /\ UserRow("u2", clock) = 1
        /\ UserRow("u1", clock) = 10

\* ---- C28 ---------------------------------------------------------------
\* C28: for every identity and day the stored generations_used never
\* decreases, and every upsert stores a value strictly greater than the one
\* the row held.
C28_RowsOnlyGrow ==
    [][/\ \A day \in Days :
             /\ UserRow("u1", day)' >= UserRow("u1", day)
             /\ \A id \in AnonymousIds : AnonRow(id, day)' >= AnonRow(id, day)
       /\ \A p \in Procs :
             (pc[p] = "upsert" /\ pc'[p] = "log")
             => IF loc[p].isAuthenticated
                  THEN UserRow(loc[p].user, loc[p].today)'
                          > UserRow(loc[p].user, loc[p].today)
                  ELSE AnonRow(loc[p].anonymousId, loc[p].today)'
                          > AnonRow(loc[p].anonymousId, loc[p].today)]_vars

\* ---- C29 ---------------------------------------------------------------
\* The success=true log entries of the identity on the day.
LogCount(key, day) ==
    LET es == {e \in BagToSet(generation_logs) :
                  /\ e.user_id = key.user_id
                  /\ e.anonymous_id = key.anonymous_id
                  /\ e.created_at = day
                  /\ e.success}
    IN  BagCardinality([e \in es |-> generation_logs[e]])

\* C29: with no request in flight, for each identity and day the number of
\* success=true log entries equals the identity's generations_used, and
\* every entry has generations_after = generations_before + 1.
C29_LogAgreesWithCounters ==
    Quiescent =>
        /\ \A day \in Days :
              /\ LogCount(UserKey("u1"), day) = UserRow("u1", day)
              /\ \A id \in AnonymousIds :
                    LogCount(AnonKey(id), day) = AnonRow(id, day)
        /\ \A e \in BagToSet(generation_logs) :
              e.generations_after = e.generations_before + 1


\* ---- C22 ---------------------------------------------------------------
\* C22: the stats a fallback check returns report 0 used when the stored
\* item is of another date; a fallback record finding an item of another
\* date (or none) stores count 1 under today's date; and while the stored
\* item is of today, no check or record step lowers its count or changes
\* its date.
C22_DateScoped ==
    [][(call.pc = "invoked" /\ call'.pc = "returned" /\ call'.console # "")
       => LET key == storageKey(call.isAuthenticated)
              item == localStorage[key]
          IN  /\ (call.op = "checkUsageLimit" /\ item.date # clientDate)
                    => /\ call'.result.generationsUsed = 0
                       /\ call'.result.canGenerate
              /\ (call.op = "recordGeneration" /\ call.success
                    /\ item.date # clientDate)
                    => localStorage'[key] = [date |-> clientDate, count |-> 1]
              /\ item.date = clientDate
                    => /\ localStorage'[key].date = clientDate
                       /\ localStorage'[key].count >= item.count
              /\ \A other \in StorageKeys \ {key} :
                    localStorage'[other] = localStorage[other]]_vars

\* After midnight a fallback check has reported no usage while the item
\* still holds yesterday's full count.
C22_Witness ==
    /\ call.pc = "returned"
    /\ call.op = "checkUsageLimit"
    /\ call.console # ""
    /\ ~call.isAuthenticated
    /\ localStorage["anon_usage"].count = 5
    /\ localStorage["anon_usage"].date < clientDate
    /\ call.result.generationsUsed = 0
    /\ call.result.canGenerate


\* ---- C24 ---------------------------------------------------------------
\* C24 as stated: a page reload (local storage not cleared) leaves the
\* service with the device id it had, and clearLocalData gives it a new id,
\* which is the stored one.
C24_DeviceIdStable ==
    [][/\ PageReload => device'.deviceId = device.deviceId
       /\ clearLocalData => /\ device'.deviceId # device.deviceId
                            /\ device'.stored = device'.deviceId]_vars

\* C24 amended: once an id is stored, a page reload gives the service that
\* id and leaves it stored; with none stored (the write had failed) a
\* reload gives a new id; clearLocalData gives a new id, stored whenever
\* the storage takes the write; and a stored id is always the service's.
C24_StoredDeviceIdStable ==
    [][/\ (PageReload /\ device.stored # 0)
             => /\ device'.deviceId = device.stored
                /\ device'.stored = device.stored
       /\ (PageReload /\ device.stored = 0)
             => /\ device'.deviceId # device.deviceId
                /\ device.writable => device'.stored = device'.deviceId
       /\ clearLocalData
             => /\ device'.deviceId \notin {device.deviceId, device.stored}
                /\ device.writable => device'.stored = device'.deviceId
       /\ device'.stored # 0 => device'.deviceId = device'.stored]_vars

\* The service holds the second id generated, after clearLocalData or a
\* reload that found none stored, and it is the stored one.
C24_Witness ==
    /\ device.minted = 2
    /\ device.stored = 2
    /\ device.deviceId = 2
    /\ device.writable


\* ------------------------------------------------------------- the page
\* CanRenderer with generateCanRender as its onGenerate, the service's calls
\* answered by one invocation of the rate-limit function or not at all.
MaxGenerations == 1

\* The invocation that serves the page's requests.
PageProc == "p1"

\* The headers and the body the service's request arrives with: the page's
\* address in x-forwarded-for, the session's token when signed in, the
\* device id as fingerprint.
PageXForwardedFor == <<PriorIp, "ip2">>
PageAuthorization(isAuthenticated) ==
    IF isAuthenticated
      THEN [scheme |-> "Bearer", token |-> "tok_u1"]
      ELSE [scheme |-> NoHeader, token |-> NoHeader]
PageAction(op) == IF op = "checkUsageLimit" THEN "check" ELSE "record"

\* A call of the service at the point where functions.invoke is awaited.
Invoked(op, success) ==
    [NoCall EXCEPT !.op = op, !.pc = "invoked", !.success = success,
                   !.isAuthenticated = session]

\* What the awaited functions.invoke resolves with when the function answered.
ReplyOf(r) == [reachable |-> TRUE, status |-> r.status, data |-> r]

\* The rest of the service's method once functions.invoke has resolved.
Settled(reply) ==
    IF call.op = "checkUsageLimit"
      THEN call' = checkUsageLimitSettled(reply) /\ UNCHANGED localStorage
      ELSE recordGenerationSettled(reply)

\* The request reaches the function, which validates the address.
RequestArrives ==
    /\ call.pc = "invoked"
    /\ pc[PageProc] = "idle"
    /\ ValidateIp(PageProc, PageXForwardedFor, NoHeader, NoHeader)
    /\ call' = [call EXCEPT !.pc = "sent"]
    /\ UNCHANGED <<clock, user_usage, anonymous_usage, generation_logs,
                   responses, nreq, req>>
    /\ UNCHANGED <<localStorage, session, clientDate, device, flow>>

\* The function reads the credential and the body of the page's request.
RequestRead ==
    /\ call.pc = "sent"
    /\ pc[PageProc] = "auth"
    /\ Identify(PageProc, PageAuthorization(call.isAuthenticated),
                PageAction(call.op), PriorFingerprint, call.success)
    /\ UNCHANGED <<clock, user_usage, anonymous_usage, generation_logs,
                   responses, nreq, req>>
    /\ UNCHANGED clientVars

\* The function's response reaches the service.
ResponseArrives ==
    /\ call.pc = "sent"
    /\ pc[PageProc] = "done"
    /\ Settled(ReplyOf(resp[PageProc]))
    /\ pc' = [pc EXCEPT ![PageProc] = "idle"]
    /\ loc' = [loc EXCEPT ![PageProc] = NoLoc]
    /\ resp' = [resp EXCEPT ![PageProc] = NoResp]
    /\ UNCHANGED <<clock, user_usage, anonymous_usage, generation_logs,
                   responses, nreq, req>>
    /\ UNCHANGED <<session, clientDate, device, flow>>

\* The function cannot be reached: functions.invoke resolves with an error.
FunctionUnreachable ==
    /\ call.pc = "invoked"
    /\ Settled(NoReply)
    /\ UNCHANGED <<session, clientDate, device, flow, handlerVars>>

\* The function's own steps between reading the request and responding.
FunctionStep ==
    \/ CheckUser(PageProc)
    \/ CheckAnon(PageProc)
    \/ CheckIp(PageProc)
    \/ RecordUser(PageProc)
    \/ RecordAnon(PageProc)
    \/ RecordIp(PageProc)
    \/ Upsert(PageProc)
    \/ InsertLog(PageProc)

\* loadUsageStats, on mount and at the end of handleGenerate: checkUsageLimit
\* is called.
loadUsageStats ==
    /\ flow.pc \in {"mount", "refresh"}
    /\ call.pc = "idle"
    /\ call' = Invoked("checkUsageLimit", FALSE)
    /\ flow' = [flow EXCEPT !.pc = IF flow.pc = "mount" THEN "mount_stats"
                                                        ELSE "refresh_stats"]
    /\ UNCHANGED <<localStorage, session, clientDate, device, handlerVars>>

\* setUsageStats(stats); after handleGenerate's refresh, setIsGenerating(false).
setUsageStats ==
    /\ flow.pc \in {"mount_stats", "refresh_stats"}
    /\ call.pc = "returned"
    /\ call' = NoCall
    /\ flow' = [flow EXCEPT !.pc = "idle",
                            !.canGenerate = call.result.canGenerate,
                            !.isGenerating = FALSE]
    /\ UNCHANGED <<localStorage, session, clientDate, device, handlerVars>>

\* handleGenerate with an image chosen and usageStats.canGenerate true:
\* setIsGenerating(true), onGenerate is called, generateCanRender awaits
\* checkUsageLimit.
handleGenerate ==
    /\ flow.pc = "idle"
    /\ flow.canGenerate
    /\ flow.generations < MaxGenerations
    /\ call.pc = "idle"
    /\ call' = Invoked("checkUsageLimit", FALSE)
    /\ flow' = [flow EXCEPT !.pc = "gate",
                            !.isGenerating = TRUE,
                            !.success = FALSE,
                            !.settled = "pending",
                            !.response = "none",
                            !.gate = "none",
                            !.modelCalls = 0,
                            !.recordRequests = 0,
                            !.recordStatus = 0,
                            !.accepted = FALSE,
                            !.generations = @ + 1]
    /\ UNCHANGED <<localStorage, session, clientDate, device, handlerVars>>

\* Variant: the stats are not looked at.
generateCanRenderGateOpen ==
    /\ flow.pc = "gate"
    /\ call.pc = "returned"
    /\ call' = NoCall
    /\ flow' = [flow EXCEPT !.pc = "model",
                            !.gate = IF call.result.canGenerate
                                       THEN "open" ELSE "closed"]
    /\ UNCHANGED <<localStorage, session, clientDate, device, handlerVars>>

\* generateCanRender has its stats (the API key being configured): it throws
\* when canGenerate is false,
\* and goes on to the try block otherwise.
generateCanRenderGate ==
    /\ flow.pc = "gate"
    /\ call.pc = "returned"
    /\ call' = NoCall
    /\ flow' = IF call.result.canGenerate
                 THEN [flow EXCEPT !.pc = "model", !.gate = "open"]
                 ELSE [flow EXCEPT !.pc = "finally", !.gate = "closed",
                                   !.settled = "rejected"]
    /\ UNCHANGED <<localStorage, session, clientDate, device, handlerVars>>

\* The try block up to recordGeneration(true): the files are read and the
\* model is called.  unreadable: fileToBase64 or loadCanReference rejects;
\* throws: generateContent rejects; image, text: the response with and
\* without an image part.
ModelOutcomes == {"unreadable", "throws", "image", "text"}

generateContent ==
    /\ flow.pc = "model"
    /\ \E outcome \in ModelOutcomes :
          IF outcome \in {"unreadable", "throws"}
            THEN /\ flow' = [flow EXCEPT
                       !.pc = "catch",
                       !.modelCalls = IF outcome = "throws" THEN @ + 1 ELSE @]
                 /\ UNCHANGED call
            ELSE /\ flow' = [flow EXCEPT
                       !.pc = "recorded",
                       !.response = outcome,
                       !.modelCalls = @ + 1,
                       !.recordRequests = @ + 1]
                 /\ call' = Invoked("recordGeneration", TRUE)
    /\ UNCHANGED <<localStorage, session, clientDate, device, handlerVars>>

\* recordGeneration(true) has returned: the image part is returned as a
\* blob URL, or the canvas composite is started; a failed record throws.
generateCanRenderRecorded ==
    /\ flow.pc = "recorded"
    /\ call.pc = "returned"
    /\ call' = NoCall
    /\ flow' =
         LET f == [flow EXCEPT
                     !.recordStatus = call.reply.status,
                     !.accepted = ~invokeError(call.reply)]
         IN  IF call.rejected \/ ~call.result.success
               THEN [f EXCEPT !.pc = "catch"]
             ELSE IF flow.response = "image"
               THEN [f EXCEPT !.pc = "finally", !.settled = "resolved",
                              !.success = TRUE]
               ELSE [f EXCEPT !.pc = "canvas"]
    /\ UNCHANGED <<localStorage, session, clientDate, device, handlerVars>>

\* The canvas composite: when the user's image loads and toBlob yields a
\* blob, recordGeneration(true) is called again; when the image does not
\* load or the blob is null, nothing resolves or rejects the promise.
canvasComposite ==
    /\ flow.pc = "canvas"
    /\ \E drawn \in BOOLEAN :
          IF drawn
            THEN /\ flow' = [flow EXCEPT !.pc = "canvas_recorded",
                                         !.recordRequests = @ + 1]
                 /\ call' = Invoked("recordGeneration", TRUE)
            ELSE /\ flow' = [flow EXCEPT !.pc = "never"]
                 /\ UNCHANGED call
    /\ UNCHANGED <<localStorage, session, clientDate, device, handlerVars>>

\* The canvas path's recordGeneration has returned: resolve(url).
canvasRecorded ==
    /\ flow.pc = "canvas_recorded"
    /\ call.pc = "returned"
    /\ call' = NoCall
    /\ flow' = IF call.rejected
                 THEN [flow EXCEPT !.pc = "never"]
                 ELSE [flow EXCEPT !.pc = "finally", !.settled = "resolved",
                                   !.success = TRUE,
                                   !.accepted = @ \/ ~invokeError(call.reply)]
    /\ UNCHANGED <<localStorage, session, clientDate, device, handlerVars>>

\* generateCanRender's catch block: recordGeneration(false, message).
generateCanRenderCatch ==
    /\ flow.pc = "catch"
    /\ call.pc = "idle"
    /\ call' = Invoked("recordGeneration", FALSE)
    /\ flow' = [flow EXCEPT !.pc = "caught"]
    /\ UNCHANGED <<localStorage, session, clientDate, device, handlerVars>>

\* ... and the error is thrown on.
generateCanRenderThrows ==
    /\ flow.pc = "caught"
    /\ call.pc = "returned"
    /\ call' = NoCall
    /\ flow' = [flow EXCEPT !.pc = "finally", !.settled = "rejected"]
    /\ UNCHANGED <<localStorage, session, clientDate, device, handlerVars>>

\* handleGenerate's finally block: recordGeneration(success, errorMessage).
handleGenerateFinally ==
    /\ flow.pc = "finally"
    /\ call.pc = "idle"
    /\ call' = Invoked("recordGeneration", flow.success)
    /\ flow' = [flow EXCEPT !.pc = "finally_recorded",
                            !.recordRequests =
                                IF flow.success THEN @ + 1 ELSE @]
    /\ UNCHANGED <<localStorage, session, clientDate, device, handlerVars>>

\* ... then loadUsageStats, unless recordGeneration threw, in which case
\* setIsGenerating(false) follows at once.
handleGenerateRecorded ==
    /\ flow.pc = "finally_recorded"
    /\ call.pc = "returned"
    /\ call' = NoCall
    /\ flow' =
         LET served == flow.accepted \/ (flow.success /\ ~invokeError(call.reply))
             f == [flow EXCEPT
                     !.unrecorded =
                         IF flow.success /\ ~served THEN @ + 1 ELSE @]
         IN  IF call.rejected
               THEN [f EXCEPT !.pc = "idle", !.isGenerating = FALSE]
               ELSE [f EXCEPT !.pc = "refresh"]
    /\ UNCHANGED <<localStorage, session, clientDate, device, handlerVars>>

\* The page is opened, signed in or not, some way into the caller's day;
\* the component mounts.
InitApp ==
    /\ \E isAuthenticated \in BOOLEAN :
       \E k \in 0..maxGenerations(isAuthenticated) :
           /\ InitStore(isAuthenticated, k)
           /\ session = isAuthenticated
    /\ InitHandlers
    /\ req = NoReq
    /\ localStorage = [key \in StorageKeys |-> NoItem]
    /\ clientDate = clock
    /\ call = NoCall
    /\ device = getDeviceId(NoDevice)
    /\ flow = [NoFlow EXCEPT !.pc = "mount"]

NextApp ==
    \/ loadUsageStats
    \/ setUsageStats
    \/ handleGenerate
    \/ generateCanRenderGate
    \/ generateContent
    \/ generateCanRenderRecorded
    \/ canvasComposite
    \/ canvasRecorded
    \/ generateCanRenderCatch
    \/ generateCanRenderThrows
    \/ handleGenerateFinally
    \/ handleGenerateRecorded
    \/ RequestArrives
    \/ RequestRead
    \/ FunctionStep
    \/ ResponseArrives
    \/ FunctionUnreachable

\* The page and the function.
SpecApp == InitApp /\ [][NextApp]_vars

\* The same, where a step that can be taken is taken in the end: promises
\* that settle run their continuations, requests are answered or fail.
SpecAppFair == SpecApp /\ WF_vars(NextApp)


\* ---- C27 ---------------------------------------------------------------
\* C27: when generateCanRender's checkUsageLimit reports canGenerate =
\* false, generateCanRender rejects at once, with no call of the image
\* model and no record request, and from then to the end of the generation
\* no usage row, no log entry and no localStorage item changes.
C27_ClosedGateStops ==
    [][/\ flow'.gate = "closed" =>
            /\ flow'.settled = "rejected"
            /\ flow'.modelCalls = 0
            /\ flow'.recordRequests = 0
       /\ (flow.gate # "closed" /\ flow'.gate = "closed") => call' = NoCall
       /\ flow.gate = "closed" =>
            UNCHANGED <<user_usage, anonymous_usage, generation_logs,
                        localStorage>>]_vars

\* A generation refused by generateCanRender's own check has run to the
\* end of handleGenerate's finally block.
C27_Witness ==
    /\ flow.gate = "closed"
    /\ flow.pc = "refresh"

\* ---- C23 ---------------------------------------------------------------
\* C23: a generation started from the page issues at most one
\* record(success=true) request, and exactly one once generateCanRender has
\* resolved with an image.
C23_OneRecordPerImage ==
    /\ flow.recordRequests <= 1
    /\ flow.settled = "resolved" => flow.recordRequests = 1

\* ---- C26 ---------------------------------------------------------------
\* C26: generateCanRender resolves with an image only if the function
\* accepted a record(success=true) request of that generation, and does not
\* resolve when the function answered its record with 429.
C26_ImageOnlyIfAccepted ==
    /\ flow.settled = "resolved" => flow.accepted
    /\ flow.recordStatus = 429 => flow.settled # "resolved"

\* ---- C21 ---------------------------------------------------------------
\* The page's identity at the function.
PageKey ==
    IF session
      THEN UserKey("u1")
      ELSE AnonKey(createSecureAnonymousId(PriorIp, PriorFingerprint))

\* C21: the caller's record requests the function accepted today plus the
\* images delivered with no record accepted by the function (admitted on
\* the fallback's word) never number more than the caller's cap.
C21_SwitchingKeepsCap ==
    Accepted(PageKey, clock) + flow.unrecorded <= maxGenerations(session)

\* ---- C30 ---------------------------------------------------------------
\* C30: the promise of every generateCanRender call is resolved or rejected
\* in the end, and isGenerating, once true, is false again in the end.
C30_GenerationSettles ==
    /\ (flow.settled = "pending") ~> (flow.settled \in {"resolved", "rejected"})
    /\ flow.isGenerating ~> ~flow.isGenerating

====
